---- MODULE Spec2Model ----
(***************************************************************************)
(* A model of pomod (src/src/main.rs): the pomodoro timer state machine    *)
(* (TimerState, Timer) and the signal-driven host loop of main.            *)
(*                                                                         *)
(* Time.  A Duration is a natural number of time units of 500 ms (the      *)
(* timeout of the loop's wait).  An Instant is opaque in the program: the  *)
(* only thing ever computed from one is Instant::now() - self.last_poll,   *)
(* so the field last_poll is carried as that difference, the variable      *)
(* since_poll, which grows while time passes and is 0 right after          *)
(* last_poll was assigned.  state_start_time is only ever tested with      *)
(* is_none(), so Some(instant) is carried as Some("Instant").              *)
(*                                                                         *)
(* Option<T> is a sequence: <<>> is None and <<x>> is Some(x).             *)
(*                                                                         *)
(* Left out: the two panics of the program, which end it.  The trap holds  *)
(* only SIGUSR1 and SIGUSR2, so the "unknown signal" arm is never taken;   *)
(* show() is taken to succeed, the notification counting as shown when it  *)
(* is called.                                                              *)
(***************************************************************************)
EXTENDS Integers, Sequences, FiniteSets, TLC

VARIABLES
  timer,       \* the Timer owned by main (all fields but last_poll)
  since_poll,  \* Instant::now() - timer.last_poll
  pc,          \* main's position in the loop body: "wait", "poll", "print"
  ev,          \* what the wait of this iteration returned
  since_ev,    \* time since the event of this iteration was applied
  notif,       \* the notifications shown during this iteration
  status,      \* the last line printed (<<>> before the first)
  phases,      \* the phases entered since the Timer was made (observer)
  e2e,         \* how far the run has followed the end-to-end scenario
  toggles,     \* the toggles since the Timer was made, modulo 2 (observer)
  log          \* what main has done in this iteration, in order (observer)

vars == <<timer, since_poll, pc, ev, since_ev, notif, status, phases, e2e,
          toggles, log>>

----------------------------------------------------------------------------
(* Bounds of the model *)

\* `phases` records at most this many phases.
MaxHist == 16

----------------------------------------------------------------------------
(* Constants of the program *)

POMODORO_TIME == 25 * 60
SHORT_BREAK_TIME == 5 * 60
LONG_BREAK_TIME == 30 * 60
BREAK_CYCLE == 4

\* Time units per second: a unit is the 500 ms of the wait's timeout.
UnitsPerSec == 2
\* Duration::from_millis(500), in time units.
WAIT_TIMEOUT == 1

----------------------------------------------------------------------------
(* Option and Duration *)

None == <<>>
Some(x) == <<x>>
is_none(o) == o = <<>>
unwrap(o) == o[1]

\* Duration::new(seconds, 0)
DurationNew(secs) == secs * UnitsPerSec

\* Duration::as_secs: whole seconds, the fraction dropped
as_secs(d) == d \div UnitsPerSec

\* checked_sub that gives None already when nothing is left.
checked_sub_strict(d, e) == IF e >= d THEN None ELSE Some(d - e)

\* A subtraction that stops at zero: saturating_sub for checked_sub.
checked_sub_saturating(d, e) == IF e > d THEN Some(0) ELSE Some(d - e)

\* Duration::checked_sub: None only when the result would be negative
checked_sub(d, e) == IF e > d THEN None ELSE Some(d - e)

\* Option::unwrap_or
unwrap_or(o, dflt) == IF is_none(o) THEN dflt ELSE unwrap(o)

----------------------------------------------------------------------------
(* TimerState *)

TimerStates == {"None", "Pomodoro", "ShortBreak", "LongBreak"}

time(s) ==
  DurationNew(CASE s \in {"None", "Pomodoro"} -> POMODORO_TIME
                [] s = "ShortBreak" -> SHORT_BREAK_TIME
                [] s = "LongBreak" -> LONG_BREAK_TIME)

\* The glyphs are private-use code points, named here by their number.
pomicon(s) ==
  CASE s = "None" -> "U+E002"
    [] s = "Pomodoro" -> "U+E003"
    [] s = "ShortBreak" -> "U+E005"
    [] s = "LongBreak" -> "U+E006"

\* next with the long break one break early.
next_early(s, break_counter) ==
  CASE s = "None" -> [state |-> "Pomodoro", break_counter |-> break_counter]
    [] s = "Pomodoro" ->
         [state |-> IF break_counter < BREAK_CYCLE - 2
                    THEN "ShortBreak" ELSE "LongBreak",
          break_counter |-> ((break_counter + 1) % 256) % BREAK_CYCLE]
    [] s \in {"ShortBreak", "LongBreak"} ->
         [state |-> "Pomodoro", break_counter |-> break_counter]

\* next that counts one break twice: + 2 for + 1.
next_skip(s, break_counter) ==
  CASE s = "None" -> [state |-> "Pomodoro", break_counter |-> break_counter]
    [] s = "Pomodoro" ->
         [state |-> IF break_counter < BREAK_CYCLE - 1
                    THEN "ShortBreak" ELSE "LongBreak",
          break_counter |-> ((break_counter + 2) % 256) % BREAK_CYCLE]
    [] s \in {"ShortBreak", "LongBreak"} ->
         [state |-> "Pomodoro", break_counter |-> break_counter]

\* next that starts a new count after every break, long or short.
next_clear(s, break_counter) ==
  CASE s = "None" -> [state |-> "Pomodoro", break_counter |-> break_counter]
    [] s = "Pomodoro" ->
         [state |-> IF break_counter < BREAK_CYCLE - 1
                    THEN "ShortBreak" ELSE "LongBreak",
          break_counter |-> ((break_counter + 1) % 256) % BREAK_CYCLE]
    [] s \in {"ShortBreak", "LongBreak"} ->
         [state |-> "Pomodoro", break_counter |-> 0]

\* next that goes back to the placeholder after a long break.
next_wrap(s, break_counter) ==
  CASE s = "None" -> [state |-> "Pomodoro", break_counter |-> break_counter]
    [] s = "Pomodoro" ->
         [state |-> IF break_counter < BREAK_CYCLE - 1
                    THEN "ShortBreak" ELSE "LongBreak",
          break_counter |-> ((break_counter + 1) % 256) % BREAK_CYCLE]
    [] s = "ShortBreak" ->
         [state |-> "Pomodoro", break_counter |-> break_counter]
    [] s = "LongBreak" ->
         [state |-> "None", break_counter |-> break_counter]

\* TimerState::next(&mut self, break_counter: &mut u8): the new pair.
\* break_counter + 1 is a u8 sum; it is at most BREAK_CYCLE here.
next(s, break_counter) ==
  CASE s = "None" -> [state |-> "Pomodoro", break_counter |-> break_counter]
    [] s = "Pomodoro" ->
         [state |-> IF break_counter < BREAK_CYCLE - 1
                    THEN "ShortBreak" ELSE "LongBreak",
          break_counter |-> ((break_counter + 1) % 256) % BREAK_CYCLE]
    [] s \in {"ShortBreak", "LongBreak"} ->
         [state |-> "Pomodoro", break_counter |-> break_counter]

----------------------------------------------------------------------------
(* Timer *)

\* Timer::new (last_poll: Instant::now() is since_poll = 0)
new ==
  [running |-> FALSE,
   state |-> "None",
   state_start_time |-> None,
   remaining_time |-> Some(time("None")),
   break_counter |-> 0]

\* begin_next_state that leaves remaining_time as it is.
begin_next_state_keep(t) ==
  LET n == next(t.state, t.break_counter)
  IN [t EXCEPT !.state = n.state,
               !.break_counter = n.break_counter]

\* begin_next_state that takes the time of the state that ends.
begin_next_state_prev(t) ==
  LET n == next(t.state, t.break_counter)
  IN [t EXCEPT !.state = n.state,
               !.break_counter = n.break_counter,
               !.remaining_time = Some(time(t.state))]

begin_next_state(t) ==
  LET n == next(t.state, t.break_counter)
  IN [t EXCEPT !.state = n.state,
               !.break_counter = n.break_counter,
               !.remaining_time = Some(time(n.state))]

\* start that gives the phase its whole time again on every start.
start_restart(t) ==
  IF ~t.running
  THEN LET t1 == IF is_none(t.state_start_time)
                 THEN begin_next_state(
                        [t EXCEPT !.state_start_time = Some("Instant")])
                 ELSE [t EXCEPT !.remaining_time = Some(time(t.state))]
       IN [t1 EXCEPT !.running = TRUE]
  ELSE t

\* start that makes a pending transition itself.
start_flush(t) ==
  IF ~t.running
  THEN LET t1 == IF is_none(t.state_start_time)
                 THEN begin_next_state(
                        [t EXCEPT !.state_start_time = Some("Instant")])
                 ELSE IF is_none(t.remaining_time)
                 THEN begin_next_state(t)
                 ELSE t
       IN [t1 EXCEPT !.running = TRUE]
  ELSE t

\* start without its two tests.
start_always(t) ==
  [begin_next_state([t EXCEPT !.state_start_time = Some("Instant")])
     EXCEPT !.running = TRUE]

start(t) ==
  IF ~t.running
  THEN LET t1 == IF is_none(t.state_start_time)
                 THEN begin_next_state(
                        [t EXCEPT !.state_start_time = Some("Instant")])
                 ELSE t
       IN [t1 EXCEPT !.running = TRUE]
  ELSE t

stop(t) == IF t.running THEN [t EXCEPT !.running = FALSE] ELSE t

\* toggle that only ever starts.
toggle_start_only(t) == start(t)

toggle(t) == IF ~t.running THEN start(t) ELSE stop(t)

\* The body of the notification poll shows for state s.
body(s) ==
  CASE s = "None" -> "next up: none? how did this happen?"
    [] s = "Pomodoro" -> "next up: pomodoro"
    [] s = "ShortBreak" -> "next up: short break"
    [] s = "LongBreak" -> "next up: long break"

notification(s) == [summary |-> "pomod: time is up", body |-> body(s)]

\* poll that begins the next state at once when the time runs out.
poll_eager(t, elapsed) ==
  IF t.running
  THEN LET r == IF is_none(t.remaining_time) THEN None
                ELSE checked_sub(unwrap(t.remaining_time), elapsed)
       IN IF is_none(r)
          THEN LET t1 == begin_next_state(t)
               IN [timer |-> t1, shown |-> <<notification(t1.state)>>]
          ELSE [timer |-> [t EXCEPT !.remaining_time = r], shown |-> <<>>]
  ELSE [timer |-> t, shown |-> <<>>]

\* poll that names the state that ended, not the one that begins.
poll_oldname(t, elapsed) ==
  IF t.running
  THEN IF is_none(t.remaining_time)
       THEN LET t1 == begin_next_state(t)
            IN [timer |-> t1, shown |-> <<notification(t.state)>>]
       ELSE [timer |-> [t EXCEPT !.remaining_time =
                           checked_sub(unwrap(t.remaining_time), elapsed)],
             shown |-> <<>>]
  ELSE [timer |-> t, shown |-> <<>>]

\* poll that does not look at running.
poll_always(t, elapsed) ==
  IF is_none(t.remaining_time)
  THEN LET t1 == begin_next_state(t)
       IN [timer |-> t1, shown |-> <<notification(t1.state)>>]
  ELSE [timer |-> [t EXCEPT !.remaining_time =
                      checked_sub(unwrap(t.remaining_time), elapsed)],
        shown |-> <<>>]

\* Timer::poll with elapsed = Instant::now() - self.last_poll: the timer
\* after it and the notifications it showed (last_poll = now is
\* since_poll' = 0, set by the action).
poll(t, elapsed) ==
  IF t.running
  THEN IF is_none(t.remaining_time)
       THEN LET t1 == begin_next_state(t)
            IN [timer |-> t1, shown |-> <<notification(t1.state)>>]
       ELSE [timer |-> [t EXCEPT !.remaining_time =
                           checked_sub(unwrap(t.remaining_time), elapsed)],
             shown |-> <<>>]
  ELSE [timer |-> t, shown |-> <<>>]

----------------------------------------------------------------------------
(* The status line *)

minutes(d) == as_secs(d) \div 60

\* seconds without the remainder: all the seconds left.
seconds_total(d) == as_secs(d)

seconds(d) == as_secs(d) % 60

Digit(n) ==
  CASE n = 0 -> "0" [] n = 1 -> "1" [] n = 2 -> "2" [] n = 3 -> "3"
    [] n = 4 -> "4" [] n = 5 -> "5" [] n = 6 -> "6" [] n = 7 -> "7"
    [] n = 8 -> "8" [] n = 9 -> "9"

\* The decimal digits of n, most significant first.
RECURSIVE Decimal(_)
Decimal(n) == IF n < 10 THEN <<Digit(n)>>
              ELSE Append(Decimal(n \div 10), Digit(n % 10))

\* format!("{:02}", n): at least two digits, zero-padded
Pad2(n) == IF n < 10 THEN <<"0">> \o Decimal(n) ELSE Decimal(n)

\* The line main prints: the glyph, then " MM:SS", as a sequence of
\* characters (the glyph is one element).
state_string(t) ==
  LET remaining_time == unwrap_or(t.remaining_time, 0)
  IN <<pomicon(t.state)>> \o <<" ">> \o Pad2(minutes(remaining_time))
       \o <<":">> \o Pad2(seconds(remaining_time))

----------------------------------------------------------------------------
(* The host loop *)

\* The time that can pass during one wait, or between the handling of a
\* signal and the poll after it (the process may be descheduled or stopped
\* for any length of time): no time, 5 minutes, 12 minutes 25.5 seconds,
\* exactly 25 minutes, and half a second more than 25 minutes.
Elapsed == {0, 600, 1491, 3000, 3001}
Latency == {0, 600}

\* The phases observed: every change of phase other than by a reset.
Observe(t, t1) ==
  IF t1.state # t.state /\ Len(phases) < MaxHist
  THEN Append(phases, t1.state) ELSE phases

\* The end-to-end scenario, by stage: 0 the Timer is new; 1 it was toggled
\* with no time passed since the last poll; 2 it was polled; 3 the next wait
\* timed out after `waited`, at least 25 minutes; 4 it was polled; 5 the
\* next wait timed out; 6 it was polled again.  Off the scenario: -1.
Stage(n, w) == [stage |-> n, waited |-> w]
Off == Stage(-1, 0)

E2EToggle(elapsed) ==
  IF e2e.stage = 0 /\ elapsed = 0 THEN Stage(1, 0) ELSE Off

E2ETimeout(dt) ==
  CASE e2e.stage = 0 -> e2e
    [] e2e.stage = 2 /\ dt >= time("Pomodoro") -> Stage(3, dt)
    [] e2e.stage = 4 -> Stage(5, e2e.waited)
    [] OTHER -> Off

E2EPoll ==
  CASE e2e.stage = 0 -> e2e
    [] e2e.stage \in {1, 3, 5} -> Stage(e2e.stage + 1, e2e.waited)
    [] OTHER -> Off

Init ==
  /\ e2e = Stage(0, 0)
  /\ timer = new
  /\ since_poll = 0
  /\ pc = "wait"
  /\ ev = "none"
  /\ since_ev = 0
  /\ notif = <<>>
  /\ status = <<>>
  /\ phases = <<>>
  /\ toggles = 0
  /\ log = <<>>

\* A loop that goes straight back to waiting when the wait times out.
Timeout_skip(dt) ==
  /\ pc = "wait"
  /\ dt >= WAIT_TIMEOUT
  /\ since_poll' = since_poll + dt
  /\ ev' = "timeout"
  /\ e2e' = E2ETimeout(dt)
  /\ since_ev' = 0
  /\ notif' = <<>>
  /\ log' = <<>>
  /\ pc' = "wait"
  /\ UNCHANGED <<timer, status, phases, toggles>>

\* wait returned None: the timeout passed with no signal.
Timeout(dt) ==
  /\ pc = "wait"
  /\ dt >= WAIT_TIMEOUT
  /\ since_poll' = since_poll + dt
  /\ ev' = "timeout"
  /\ e2e' = E2ETimeout(dt)
  /\ since_ev' = 0
  /\ notif' = <<>>
  /\ log' = <<>>
  /\ pc' = "poll"
  /\ UNCHANGED <<timer, status, phases, toggles>>

\* wait returned SIGUSR1 after dt: timer.toggle(); lat passes before poll.
SigUsr1(dt, lat) ==
  /\ pc = "wait"
  /\ timer' = toggle(timer)
  /\ since_poll' = since_poll + dt + lat
  /\ ev' = "SIGUSR1"
  /\ e2e' = E2EToggle(since_poll + dt + lat)
  /\ since_ev' = lat
  /\ notif' = <<>>
  /\ phases' = Observe(timer, timer')
  /\ toggles' = (toggles + 1) % 2
  /\ log' = <<"toggle">>
  /\ pc' = "poll"
  /\ UNCHANGED status

\* A reset that keeps the count of breaks of the timer it replaces.
SigUsr2_keeps_counter(dt, lat) ==
  /\ pc = "wait"
  /\ timer' = [new EXCEPT !.break_counter = timer.break_counter]
  /\ since_poll' = lat
  /\ ev' = "SIGUSR2"
  /\ e2e' = Stage(0, 0)
  /\ since_ev' = lat
  /\ notif' = <<>>
  /\ phases' = <<>>
  /\ toggles' = 0
  /\ log' = <<"new">>
  /\ pc' = "poll"
  /\ UNCHANGED status

\* wait returned SIGUSR2 after dt: timer = Timer::new(); lat passes
\* before poll.
SigUsr2(dt, lat) ==
  /\ pc = "wait"
  /\ timer' = new
  /\ since_poll' = lat
  /\ ev' = "SIGUSR2"
  /\ e2e' = Stage(0, 0)
  /\ since_ev' = lat
  /\ notif' = <<>>
  /\ phases' = <<>>
  /\ toggles' = 0
  /\ log' = <<"new">>
  /\ pc' = "poll"
  /\ UNCHANGED status

\* timer.poll()
PollStep ==
  /\ pc = "poll"
  /\ LET p == poll(timer, since_poll)
     IN /\ timer' = p.timer
        /\ notif' = notif \o p.shown
        /\ phases' = Observe(timer, p.timer)
  /\ since_poll' = 0
  /\ e2e' = E2EPoll
  /\ log' = Append(log, "poll")
  /\ pc' = "print"
  /\ UNCHANGED <<ev, since_ev, status, toggles>>

\* println!("{}", state_string)
PrintStep ==
  /\ pc = "print"
  /\ status' = state_string(timer)
  /\ log' = Append(log, "println")
  /\ pc' = "wait"
  /\ UNCHANGED <<timer, since_poll, ev, since_ev, notif, phases, e2e,
                 toggles>>

Next ==
  \/ \E dt \in Elapsed : Timeout(dt)
  \/ \E dt \in Elapsed, lat \in Latency : SigUsr1(dt, lat)
  \/ \E dt \in Elapsed, lat \in Latency : SigUsr2(dt, lat)
  \/ PollStep
  \/ PrintStep

Spec == Init /\ [][Next]_vars

\* The loop never blocks for good: the wait returns after 500 ms at the
\* latest, and poll and println return.
SpecLive == Spec /\ WF_vars(Next)

----------------------------------------------------------------------------
(* Properties *)

Breaks == {"ShortBreak", "LongBreak"}

\* The step is a reset: the Timer is replaced by a new one.
ResetStep == pc = "wait" /\ ev' = "SIGUSR2"

\* C1: from a new Timer, whatever the toggles in between, the phases
\* entered alternate Work and break, and the breaks come in groups of four:
\* the 1st, 2nd and 3rd of a group are short and the 4th is long.
C1_BreakPattern ==
  \A i \in 1..Len(phases) :
    phases[i] = IF i % 2 = 1 THEN "Pomodoro"
                ELSE IF (i \div 2) % 4 = 0 THEN "LongBreak"
                ELSE "ShortBreak"

\* Two whole groups of breaks were seen, the last break a long one.
C1_Witness == Len(phases) >= 16 /\ phases[16] = "LongBreak"

\* C2 as stated: the first eight phases are Work, ShortBreak, Work,
\* ShortBreak, Work, LongBreak, Work, ShortBreak (the third break is long).
C2_ThirdBreakLong ==
  Len(phases) >= 8 =>
    SubSeq(phases, 1, 8) =
      <<"Pomodoro", "ShortBreak", "Pomodoro", "ShortBreak",
        "Pomodoro", "LongBreak", "Pomodoro", "ShortBreak">>

\* C2, amended: the first eight phases are Work, ShortBreak, Work,
\* ShortBreak, Work, ShortBreak, Work, LongBreak (the fourth break is long).
C2_FirstEight ==
  Len(phases) >= 8 =>
    SubSeq(phases, 1, 8) =
      <<"Pomodoro", "ShortBreak", "Pomodoro", "ShortBreak",
        "Pomodoro", "ShortBreak", "Pomodoro", "LongBreak">>

\* The eighth phase since the Timer was made has just been entered.
C2_Witness == Len(phases) = 8 /\ timer.state = phases[8]

\* C3: break_counter is always in 0..3; within the life of one Timer (a
\* reset makes a new Timer) it changes only on a transition that leaves
\* Work, which adds 1 mod 4; and a transition takes it back to 0 exactly
\* when it chose LongBreak.
C3_BreakCounter ==
  /\ [](timer.break_counter \in 0..3)
  /\ [][~ResetStep =>
         /\ timer'.break_counter # timer.break_counter =>
              timer.state = "Pomodoro" /\ timer'.state \in Breaks
         /\ timer.state = "Pomodoro" /\ timer'.state # timer.state =>
              timer'.break_counter = (timer.break_counter + 1) % 4
         /\ timer'.state # timer.state =>
              (timer'.state = "LongBreak" <=>
                 timer.break_counter # 0 /\ timer'.break_counter = 0)]_vars

\* A long break was just chosen and the counter is back at 0.
C3_Witness ==
  /\ pc = "print" /\ timer.state = "LongBreak" /\ timer.break_counter = 0
  /\ Len(notif) = 1

\* The last line printed shows a phase other than the placeholder: this
\* Timer was started before the current iteration.
StartedBefore == status # <<>> /\ status[1] # "U+E002"

\* C4 as stated: time that passes while the timer is stopped is never
\* subtracted from remaining_time: when a stopped timer with remaining_time
\* = Some(d) is started again, the poll that follows leaves d minus only
\* the time between start() and that poll.
C4_StoppedTimeNotCounted ==
  [][(/\ pc = "poll" /\ ev = "SIGUSR1" /\ timer.running /\ StartedBefore
      /\ ~is_none(timer.remaining_time)) =>
       LET d == unwrap(timer.remaining_time)
       IN timer'.remaining_time =
            IF since_ev > d THEN None ELSE Some(d - since_ev)]_vars

\* C5 as stated: a running poll with remaining_time = Some(d) and elapsed
\* time e leaves None whenever e >= d, the boundary e = d included, and
\* Some(d - e) whenever e < d.
C5_NoneAtBoundary ==
  [][(pc = "poll" /\ timer.running /\ ~is_none(timer.remaining_time)) =>
       LET d == unwrap(timer.remaining_time)
           e == since_poll
       IN timer'.remaining_time = IF e >= d THEN None ELSE Some(d - e)]_vars

\* C5, amended: a running poll with remaining_time = Some(d) and elapsed
\* time e leaves None whenever e > d and Some(d - e) whenever e <= d, which
\* is Some(0) at the boundary e = d; remaining_time is never negative.
C5_CheckedSub ==
  /\ [](~is_none(timer.remaining_time) => unwrap(timer.remaining_time) >= 0)
  /\ [][(pc = "poll" /\ timer.running /\ ~is_none(timer.remaining_time)) =>
          LET d == unwrap(timer.remaining_time)
              e == since_poll
          IN timer'.remaining_time = IF e > d THEN None ELSE Some(d - e)]_vars

\* A running poll has met the boundary: a positive time was left, exactly
\* that time had passed, and Some(0) is left.
C5_Witness ==
  /\ pc = "print" /\ timer.running /\ timer.remaining_time = Some(0)
  /\ status # <<>> /\ SubSeq(status, 3, 7) # <<"0", "0", ":", "0", "0">>

\* C6: exhaustion takes two polls.  The running poll that finds less left
\* than the time that has passed sets remaining_time to None, changes
\* neither state nor break_counter and shows no notification; a running
\* poll that finds
\* remaining_time None makes exactly one phase transition (Work to a
\* break, a break to Work), sets remaining_time to the whole duration of
\* the new phase whatever time has passed, and shows exactly one
\* notification.
C6_TwoPolls ==
  [][(pc = "poll" /\ timer.running) =>
       /\ (/\ ~is_none(timer.remaining_time)
           /\ since_poll > unwrap(timer.remaining_time)) =>
            /\ is_none(timer'.remaining_time)
            /\ timer'.state = timer.state
            /\ timer'.break_counter = timer.break_counter
            /\ notif' = <<>>
       /\ is_none(timer.remaining_time) =>
            /\ timer.state = "Pomodoro" => timer'.state \in Breaks
            /\ timer.state \in Breaks => timer'.state = "Pomodoro"
            /\ Len(phases) < MaxHist =>
                 phases' = Append(phases, timer'.state)
            /\ timer'.remaining_time =
                 Some(CASE timer'.state = "Pomodoro" -> 25 * 60 * UnitsPerSec
                        [] timer'.state = "ShortBreak" -> 5 * 60 * UnitsPerSec
                        [] timer'.state = "LongBreak" -> 30 * 60 * UnitsPerSec)
            /\ Len(notif') = 1]_vars

\* The poll after an exhaustion has begun a break, time having passed
\* since the poll before it.
C6_Witness ==
  /\ pc = "print" /\ ev = "timeout" /\ Len(notif) = 1
  /\ timer.state = "ShortBreak" /\ timer.remaining_time = Some(600)

\* The notifications the step shows (notif starts empty in each iteration).
Shown == IF pc = "wait" THEN notif'
         ELSE SubSeq(notif', Len(notif) + 1, Len(notif'))

\* C7: a step shows a notification exactly when it is a poll of a running
\* timer that changes the phase, and then it shows one, whose body names
\* the phase entered; start, stop, reset, a poll while stopped and a poll
\* that only decrements show none.
C7_NotifyOncePerTransition ==
  [][/\ pc = "wait" \/ Len(notif') >= Len(notif)
     /\ IF pc = "poll" /\ timer.running /\ timer'.state # timer.state
        THEN Shown =
               <<[summary |-> "pomod: time is up",
                  body |-> CASE timer'.state = "Pomodoro" -> "next up: pomodoro"
                             [] timer'.state = "ShortBreak" ->
                                  "next up: short break"
                             [] timer'.state = "LongBreak" ->
                                  "next up: long break"]>>
        ELSE Shown = <<>>]_vars

\* A poll has shown the notification of a long break.
C7_Witness ==
  /\ pc = "print"
  /\ notif = <<[summary |-> "pomod: time is up", body |-> "next up: long break"]>>

\* C8: start is idempotent: in every state of the Timer that is reached, a
\* second start() right after a first leaves the Timer (running, state,
\* remaining_time, state_start_time, break_counter) as the first left it.
C8_StartIdempotent == start(start(timer)) = start(timer)

\* The toggle of this iteration was the first start of the Timer: start
\* made the transition to Work, and a second start makes none.
C8_Witness ==
  /\ pc = "poll" /\ ev = "SIGUSR1" /\ timer.running /\ ~StartedBefore
  /\ timer.state = "Pomodoro" /\ start(timer).state = "Pomodoro"

\* The Timer as new() makes it.
Fresh ==
  [running |-> FALSE,
   state |-> "None",
   state_start_time |-> <<>>,
   remaining_time |-> <<25 * 60 * UnitsPerSec>>,
   break_counter |-> 0]

\* C9: a reset in any state leaves the Timer exactly as new() makes it; the
\* poll of the same iteration changes nothing of it and shows nothing; and
\* the next toggle starts it at Work with the whole 25 minutes.
C9_Reset ==
  /\ [][ResetStep => timer' = Fresh]_vars
  /\ [][(pc = "poll" /\ ev = "SIGUSR2") =>
          timer' = timer /\ notif' = <<>> /\ phases' = phases]_vars
  /\ [][(pc = "wait" /\ ev' = "SIGUSR1" /\ timer.state = "None") =>
          timer' = [Fresh EXCEPT !.running = TRUE,
                                 !.state = "Pomodoro",
                                 !.state_start_time = <<"Instant">>]]_vars

\* A reset has been applied in a long break, after breaks were counted.
C9_Witness ==
  /\ pc = "poll" /\ ev = "SIGUSR2" /\ timer.state = "None"
  /\ StartedBefore /\ status[1] = "U+E006"

\* The start of the end-to-end scenario: the toggle of a new Timer leaves
\* it running in Work with 1500 s, and after a poll with no time passed the
\* line printed is the Work glyph and "25:00".
C10_Start ==
  /\ e2e.stage \in {1, 2} =>
       /\ timer.running /\ timer.state = "Pomodoro"
       /\ timer.remaining_time = Some(1500 * UnitsPerSec)
  /\ (e2e.stage = 2 /\ pc = "wait") =>
       status = <<"U+E003", " ", "2", "5", ":", "0", "0">>

\* The end of it: the first of the two polls showed no notification, and
\* after the second the timer is in ShortBreak, one notification was shown,
\* "next up: short break", and the line printed shows "05:00".
C10_End ==
  /\ e2e.stage \in {4, 5} => notif = <<>>
  /\ (e2e.stage = 6 /\ pc = "wait") =>
       /\ timer.state = "ShortBreak"
       /\ notif = <<[summary |-> "pomod: time is up",
                     body |-> "next up: short break"]>>
       /\ status = <<"U+E005", " ", "0", "5", ":", "0", "0">>

\* C10 as stated: new Timer, toggle, a poll with no time passed; then,
\* after exactly 1500 s, two polls reach ShortBreak with one notification
\* and the status "05:00".
C10_Exactly1500 ==
  C10_Start /\ (e2e.waited = 1500 * UnitsPerSec => C10_End)

\* C10, amended: new Timer, toggle, a poll with no time passed; then, after
\* more than 1500 s, two polls reach ShortBreak with one notification and
\* the status "05:00".
C10_EndToEnd ==
  C10_Start /\ (e2e.waited > 1500 * UnitsPerSec => C10_End)

\* The scenario has been followed to its end, the wait having taken more
\* than 1500 s.
C10_Witness ==
  e2e.stage = 6 /\ pc = "wait" /\ e2e.waited > 1500 * UnitsPerSec

\* The glyph of each state, as the source writes them.
Glyph(s) ==
  CASE s = "None" -> "U+E002" [] s = "Pomodoro" -> "U+E003"
    [] s = "ShortBreak" -> "U+E005" [] s = "LongBreak" -> "U+E006"

PhaseGlyphs == {"U+E003", "U+E005", "U+E006"}

Zero == <<" ", "0", "0", ":", "0", "0">>

\* C11: every phase transition made by poll comes after a status line that
\* shows the glyph of the phase that ends and "00:00"; and the line printed
\* never goes from one phase with time left to another phase.
C11_ZeroBeforeTransition ==
  /\ [][(pc = "poll" /\ timer'.state # timer.state) =>
          status = <<Glyph(timer.state)>> \o Zero]_vars
  /\ [][(/\ pc = "print" /\ status # <<>>
         /\ status[1] \in PhaseGlyphs /\ status'[1] \in PhaseGlyphs
         /\ status'[1] # status[1]) =>
          SubSeq(status, 2, 7) = Zero]_vars

\* Work has ended: its last line showed "00:00" and the line of the short
\* break is printed.
C11_Witness ==
  /\ pc = "wait" /\ timer.state = "ShortBreak" /\ Len(notif) = 1
  /\ status = <<"U+E005", " ", "0", "5", ":", "0", "0">>

\* " MM:SS" for a number of whole seconds below 100 minutes.
MMSS(secs) ==
  <<" ", Digit((secs \div 60) \div 10), Digit((secs \div 60) % 10), ":",
    Digit((secs % 60) \div 10), Digit((secs % 60) % 10)>>

\* The whole seconds of remaining_time, 0 for None.
WholeSecs(t) ==
  IF t.remaining_time = <<>> THEN 0 ELSE t.remaining_time[1] \div UnitsPerSec

\* C12: the line printed is the glyph of the current phase and " MM:SS",
\* MM the whole seconds of remaining_time divided by 60 and SS their
\* remainder, two digits each, " 00:00" for None; 754 s give " 12:34" and
\* a new long break " 30:00".
C12_StatusLine ==
  /\ (pc = "wait" /\ status # <<>>) =>
       status = <<Glyph(timer.state)>> \o MMSS(WholeSecs(timer))
  /\ (pc = "wait" /\ status # <<>> /\ is_none(timer.remaining_time)) =>
       SubSeq(status, 2, 7) = Zero
  /\ SubSeq(state_string([timer EXCEPT
                            !.remaining_time = <<754 * UnitsPerSec>>]), 2, 7)
       = <<" ", "1", "2", ":", "3", "4">>
  /\ (/\ pc = "wait" /\ timer.state = "LongBreak"
      /\ timer.remaining_time = <<1800 * UnitsPerSec>>) =>
       status = <<"U+E006", " ", "3", "0", ":", "0", "0">>

\* A line was printed with 754.5 s of Work left: "12:34".
C12_Witness ==
  /\ pc = "wait" /\ timer.remaining_time = <<1509>>
  /\ status = <<"U+E003", " ", "1", "2", ":", "3", "4">>

\* C13: poll on a timer that is not running changes only last_poll: the
\* Timer is as it was and nothing is shown, remaining_time None included.
C13_PollStopped ==
  [][(pc = "poll" /\ ~timer.running) =>
       timer' = timer /\ notif' = notif /\ since_poll' = 0]_vars

\* A stopped timer with its time run out has been polled after a wait.
C13_Witness ==
  /\ pc = "print" /\ ev = "timeout" /\ ~timer.running
  /\ is_none(timer.remaining_time)

\* C14: after any sequence of toggles since the Timer was made (at the
\* start or by the last reset), whatever polls and phase transitions came
\* in between, the timer is running exactly when the number of toggles is
\* odd.
C14_ToggleParity == timer.running <=> toggles = 1

\* An even number of toggles, at least two, with phase transitions in
\* between, has left the timer stopped.
C14_Witness ==
  /\ pc = "wait" /\ toggles = 0 /\ ~timer.running /\ Len(phases) >= 3

\* What the wait of an iteration makes main do before the poll.
Applied(e) ==
  CASE e = "SIGUSR1" -> <<"toggle">>
    [] e = "SIGUSR2" -> <<"new">>
    [] OTHER -> <<>>

\* C15: each iteration of the loop applies at most one event (a toggle or
\* a reset), then polls once, then prints one line, in that order; an
\* iteration whose wait timed out polls and prints all the same.
C15_IterationOrder ==
  /\ Len(Applied(ev)) <= 1
  /\ pc = "poll" => log = Applied(ev)
  /\ pc = "print" => log = Applied(ev) \o <<"poll">>
  /\ (pc = "wait" /\ ev # "none") =>
       log = Applied(ev) \o <<"poll", "println">>
  /\ (pc = "wait" /\ ev = "none") => log = <<>>

\* An iteration whose wait timed out is over: it polled, then printed.
C15_Witness ==
  pc = "wait" /\ ev = "timeout" /\ log = <<"poll", "println">>

\* C16: start() on a timer never started records state_start_time, takes
\* state from the placeholder to Work, sets remaining_time to the whole of
\* Work, leaves break_counter and sets running; start() on a stopped timer
\* that was started before changes only running; stop() changes only
\* running.
C16_StartStopFrame ==
  /\ is_none(timer.state_start_time) =>
       /\ timer.state = "None"
       /\ start(timer) = [running |-> TRUE,
                          state |-> "Pomodoro",
                          state_start_time |-> <<"Instant">>,
                          remaining_time |-> <<25 * 60 * UnitsPerSec>>,
                          break_counter |-> timer.break_counter]
  /\ (~timer.running /\ ~is_none(timer.state_start_time)) =>
       start(timer) = [timer EXCEPT !.running = TRUE]
  /\ stop(timer) = [timer EXCEPT !.running = FALSE]
  /\ (pc = "poll" /\ ev = "SIGUSR1" /\ timer.running /\ StartedBefore) =>
       /\ Glyph(timer.state) = status[1]
       /\ SubSeq(status, 2, 7) = MMSS(WholeSecs(timer))

\* A timer stopped in a break with part of its time used was started
\* again by the toggle of this iteration.
C16_Witness ==
  /\ pc = "poll" /\ ev = "SIGUSR1" /\ timer.running /\ StartedBefore
  /\ timer.state = "LongBreak" /\ timer.remaining_time = <<2109>>

\* C17: state is the placeholder exactly when state_start_time is None;
\* so a running timer is never in the placeholder state, no transition
\* made by poll leads to it, and no notification names it.
C17_PlaceholderOnlyBeforeStart ==
  /\ [](/\ timer.state = "None" <=> timer.state_start_time = <<>>
        /\ timer.running => timer.state # "None"
        /\ \A i \in 1..Len(notif) :
             notif[i].body \in {"next up: pomodoro", "next up: short break",
                                "next up: long break"})
  /\ [][(pc = "poll" /\ timer'.state # timer.state) =>
          timer'.state # "None"]_vars

\* poll has made the transition that follows a long break.
C17_Witness ==
  /\ pc = "print" /\ Len(notif) = 1 /\ timer.state = "Pomodoro"
  /\ status[1] = "U+E006"

\* C18: a timer that is running and stays running sees its remaining_time
\* become None and then its phase change: unless it is stopped or reset, it
\* never stays in one phase for good.
C18_Progress ==
  \A s \in {"Pomodoro", "ShortBreak", "LongBreak"} :
    /\ (timer.running /\ timer.state = s /\ ~is_none(timer.remaining_time))
         ~> (~timer.running \/ is_none(timer.remaining_time))
    /\ (timer.running /\ timer.state = s)
         ~> (~timer.running \/ timer.state # s)

\* With waits that timed out only, the timer has run through a whole group
\* of breaks and on into the next Work.
C18_Witness ==
  /\ pc = "print" /\ ev = "timeout" /\ timer.running /\ toggles = 1
  /\ timer.state = "Pomodoro" /\ Len(phases) >= 9

\* The whole time of each state, in time units.
Whole(s) ==
  CASE s \in {"None", "Pomodoro"} -> 25 * 60 * UnitsPerSec
    [] s = "ShortBreak" -> 5 * 60 * UnitsPerSec
    [] s = "LongBreak" -> 30 * 60 * UnitsPerSec

\* remaining_time as a number, None below every Some.
Left(t) == IF t.remaining_time = <<>> THEN -1 ELSE t.remaining_time[1]

\* C19: remaining_time = Some(d) has d at most the whole time of the
\* current state (25 min for the placeholder and Work, 5 min for
\* ShortBreak, 30 min for LongBreak), and while the state stays the same,
\* with no reset, remaining_time never grows.
C19_RemainingBounded ==
  /\ [](Left(timer) <= Whole(timer.state))
  /\ [][(~ResetStep /\ timer'.state = timer.state) =>
          Left(timer') <= Left(timer)]_vars

\* A long break has been polled down to 9 s in two waits.
C19_Witness ==
  /\ pc = "print" /\ timer.state = "LongBreak"
  /\ timer.remaining_time = <<18>>

\* C20: a pending transition waits while the timer is stopped.  With
\* remaining_time None: a toggle changes only running; while the timer is
\* stopped no step but a reset changes state, remaining_time or
\* break_counter or shows a notification; and the poll that follows the
\* toggle that starts it again makes the transition with one notification.
C20_PendingWhileStopped ==
  [][(is_none(timer.remaining_time) /\ ~ResetStep) =>
       /\ (pc = "wait" /\ ev' = "SIGUSR1") =>
            /\ timer' = [timer EXCEPT !.running = ~timer.running]
            /\ notif' = <<>>
       /\ ~timer'.running =>
            /\ timer'.state = timer.state
            /\ timer'.remaining_time = timer.remaining_time
            /\ timer'.break_counter = timer.break_counter
            /\ Shown = <<>>
       /\ (pc = "poll" /\ ev = "SIGUSR1" /\ timer.running) =>
            /\ timer'.state # timer.state
            /\ timer'.remaining_time = <<Whole(timer'.state)>>
            /\ Len(notif') = 1]_vars

\* The poll after a toggle has made the transition that was pending while
\* the timer was stopped.
C20_Witness ==
  /\ pc = "print" /\ ev = "SIGUSR1" /\ timer.running /\ Len(notif) = 1
  /\ SubSeq(status, 2, 7) = Zero

====
